---- MODULE Spec2Model ----
(***************************************************************************)
(* Model of RiverMapper/river_map_mpi_driver.py: the work partitioner      *)
(* my_mpi_idx, and the MPI driver river_map_mpi_driver run by `size`       *)
(* ranks over a shared file system (grouping cache, output directory).     *)
(***************************************************************************)
EXTENDS Integers, Sequences, FiniteSets, TLC

\* ------------------------------------------------------------------ bounds
MaxN == 6        \* largest task count given to my_mpi_idx on its own
MaxPSize == 4    \* largest communicator size given to my_mpi_idx on its own

MaxSize == 3     \* largest number of MPI ranks of a run

VARIABLES
  pN, pSize, pRes,   \* my_mpi_idx applied on its own: its arguments, its results
  run,               \* arguments of the current run and its communicator size
  pc,                \* per rank: the line of river_map_mpi_driver it stands at
  grp,               \* per rank: thalwegs2tile_groups, tile_groups_files, tile_groups2thalwegs
  share,             \* per rank: my_group_ids, i_my_groups, my_tile_groups, my_tile_groups_thalwegs
  i_loop,            \* per rank: the loop counter i of line 198
  bcastq,            \* per rank: broadcast values sent by the root, not yet received
  cacheFs,           \* the files of ./Cache/: name -> content
  outFs,             \* the files of each directory a run can have as output_dir
  calls,             \* per rank: the make_river_map invocations made so far, in order
  log,               \* what has been done in this run (history)
  prev               \* the previous run, when it computed and persisted a grouping (history)

pvars == <<pN, pSize, pRes>>
rvars == <<run, pc, grp, share, i_loop, bcastq, cacheFs, outFs, calls, log, prev>>
vars == <<pvars, rvars>>

\* ------------------------------------------------------------- Python values
None == <<>>
Some(v) == <<v>>

RECURSIVE cumsum(_)
\* numpy cumsum of a sequence of integers
cumsum(s) ==
  IF Len(s) = 0 THEN <<>>
  ELSE LET p == cumsum(SubSeq(s, 1, Len(s) - 1))
       IN Append(p, (IF Len(p) = 0 THEN 0 ELSE p[Len(p)]) + s[Len(s)])

\* bug: the remainder of the division is dropped (n_per_rank = N // size)
section_sizes_floor(Ntotal, Nsections) ==
  <<0>> \o [k \in 1..Nsections |-> Ntotal \div Nsections]

\* bug: the whole remainder goes to the last section
section_sizes_tail(Ntotal, Nsections) ==
  <<0>> \o [k \in 1..Nsections |->
             (Ntotal \div Nsections) + (IF k = Nsections THEN Ntotal % Nsections ELSE 0)]

\* [0] + extras*[Neach_section+1] + (Nsections-extras)*[Neach_section]
section_sizes(Ntotal, Nsections) ==
  LET Neach_section == Ntotal \div Nsections
      extras == Ntotal % Nsections
  IN <<0>> \o [k \in 1..extras |-> Neach_section + 1]
           \o [k \in 1..(Nsections - extras) |-> Neach_section]

\* bug: strided shares sary[i::size] instead of slices between division points
array_split_strided(N, size) ==
  [i \in 1..size |->
     [k \in 1..((N \div size) + (IF i - 1 < N % size THEN 1 ELSE 0)) |-> (i - 1) + (k - 1) * size]]

\* numpy.array_split(range(N), size): the sub-arrays sary[st:end] between
\* consecutive division points
array_split(N, size) ==
  LET div_points == cumsum(section_sizes(N, size))
  IN [i \in 1..size |->
        LET st == div_points[i]
            end == div_points[i + 1]
        IN [k \in 1..(end - st) |-> st + k - 1]]

\* dtype of numpy.array(range(N)): an empty sequence carries no element to
\* take the integer type from
range_dtype(N) == IF N = 0 THEN "float64" ELSE "int64"

\* bug: the mask is set one place after each index of the share
my_mpi_idx_shifted(N, size, rank) ==
  LET groups == array_split(N, size)
      my_group_ids == groups[rank + 1]
  IN [raised |-> range_dtype(N) # "int64",
      my_group_ids |-> my_group_ids,
      i_my_groups |-> [k \in 1..N |-> \E j \in 1..Len(my_group_ids) : my_group_ids[j] = k - 2]]

\* my_mpi_idx(N, size, rank): the rank's index array and its boolean mask;
\* indexing the mask with a non-integer array raises IndexError
my_mpi_idx(N, size, rank) ==
  LET groups == array_split(N, size)
      my_group_ids == groups[rank + 1]
  IN [raised |-> range_dtype(N) # "int64",
      my_group_ids |-> my_group_ids,
      i_my_groups |-> [k \in 1..N |-> \E j \in 1..Len(my_group_ids) : my_group_ids[j] = k - 1]]

\* ----------------------------------------------------- strings and paths
\* A string is a sequence of tokens; + on strings is \o.
Digit == <<"0", "1", "2", "3", "4", "5", "6", "7", "8", "9">>

RECURSIVE str(_)
\* the decimal text of a non-negative integer, as an f-string formats it
str(n) == IF n < 10 THEN <<Digit[n + 1]>> ELSE str(n \div 10) \o <<Digit[(n % 10) + 1]>>

RECURSIVE basename(_)
\* os.path.basename: what follows the last "/"
basename(path) ==
  IF Len(path) = 0 THEN <<>>
  ELSE IF path[Len(path)] = "/" THEN <<>>
  ELSE Append(basename(SubSeq(path, 1, Len(path) - 1)), path[Len(path)])

\* ------------------------------------------------------------ input files
\* The DEM manifests and thalweg datasets a run can be pointed at.  A tile
\* covers the interval lo..hi of a line; a thalweg runs over lo..hi.
DemsJsonFiles == {<<"/", "a", "/", "dems.json">>, <<"/", "b", "/", "dems.json">>}
ThalwegShpFiles == {<<"/", "t", "/", "thal.shp">>, <<"/", "t", "/", "none.shp">>, <<"/", "u", "/", "thal.shp">>}

ReadDems(path) ==
  IF path = <<"/", "a", "/", "dems.json">>
  THEN <<[file |-> <<"A.tif">>, lo |-> 0, hi |-> 9], [file |-> <<"B.tif">>, lo |-> 10, hi |-> 19]>>
  ELSE <<[file |-> <<"C.tif">>, lo |-> 0, hi |-> 19]>>

ReadThalwegs(path) ==
  IF path = <<"/", "t", "/", "thal.shp">>
  THEN <<[lo |-> 1, hi |-> 2], [lo |-> 7, hi |-> 8], [lo |-> 13, hi |-> 14], [lo |-> 30, hi |-> 31]>>
  ELSE IF path = <<"/", "u", "/", "thal.shp">>
  THEN <<[lo |-> 30, hi |-> 31]>>
  ELSE <<>>

\* output_dir = './' is the default of line 76; the other directory is one
\* of the working directory
default_output_dir == <<".", "/">>
OutputDirs == {default_output_dir, <<".", "/", "out", "/">>}

\* the argument tuples (dems_json_file, thalweg_shp_fname, output_dir,
\* thalweg_buffer) of a run
RunArgs ==
  { [dems_json_file |-> <<"/", "a", "/", "dems.json">>, thalweg_shp_fname |-> <<"/", "t", "/", "thal.shp">>,
     output_dir |-> <<".", "/", "out", "/">>, thalweg_buffer |-> 0],
    [dems_json_file |-> <<"/", "a", "/", "dems.json">>, thalweg_shp_fname |-> <<"/", "t", "/", "thal.shp">>,
     output_dir |-> <<".", "/", "out", "/">>, thalweg_buffer |-> 2],
    [dems_json_file |-> <<"/", "b", "/", "dems.json">>, thalweg_shp_fname |-> <<"/", "t", "/", "thal.shp">>,
     output_dir |-> <<".", "/", "out", "/">>, thalweg_buffer |-> 0],
    [dems_json_file |-> <<"/", "a", "/", "dems.json">>, thalweg_shp_fname |-> <<"/", "t", "/", "none.shp">>,
     output_dir |-> <<".", "/", "out", "/">>, thalweg_buffer |-> 0],
    [dems_json_file |-> <<"/", "a", "/", "dems.json">>, thalweg_shp_fname |-> <<"/", "u", "/", "thal.shp">>,
     output_dir |-> default_output_dir, thalweg_buffer |-> 0] }

\* ------------------------------------------------------ find_thalweg_tile
\* the files of the tiles whose extent meets the thalweg widened by the buffer
thalweg_tiles(th, tiles, thalweg_buffer) ==
  LET need(t) == t.lo <= th.hi + thalweg_buffer /\ th.lo - thalweg_buffer <= t.hi
      RECURSIVE pick(_)
      pick(k) == IF k = 0 THEN <<>>
                 ELSE pick(k - 1) \o (IF need(tiles[k]) THEN tiles[k].file ELSE <<>>)
  IN pick(Len(tiles))

\* position of x in the sequence s, 0 when absent
index_of(s, x) ==
  IF \E k \in 1..Len(s) : s[k] = x THEN CHOOSE k \in 1..Len(s) : s[k] = x ELSE 0

RECURSIVE group_thalwegs(_, _, _)
\* thalwegs 1..n grouped by identical tile list, groups in order of discovery
group_thalwegs(n, ths, tiles_of) ==
  IF n = 0
  THEN [thalwegs2tile_groups |-> <<>>, tile_groups_files |-> <<>>, tile_groups2thalwegs |-> <<>>]
  ELSE LET g == group_thalwegs(n - 1, ths, tiles_of)
           fs == tiles_of[n]
           k == index_of(g.tile_groups_files, fs)
       IN IF k = 0
          THEN [thalwegs2tile_groups |-> Append(g.thalwegs2tile_groups, Len(g.tile_groups_files)),
                tile_groups_files |-> Append(g.tile_groups_files, fs),
                tile_groups2thalwegs |-> Append(g.tile_groups2thalwegs, <<n - 1>>)]
          ELSE [thalwegs2tile_groups |-> Append(g.thalwegs2tile_groups, k - 1),
                tile_groups_files |-> g.tile_groups_files,
                tile_groups2thalwegs |->
                  [g.tile_groups2thalwegs EXCEPT ![k] = Append(@, n - 1)]]

\* find_thalweg_tile(dems_json_file, thalweg_shp_fname, thalweg_buffer)
find_thalweg_tile(dems_json_file, thalweg_shp_fname, thalweg_buffer) ==
  LET tiles == ReadDems(dems_json_file)
      ths == ReadThalwegs(thalweg_shp_fname)
      tiles_of == [n \in 1..Len(ths) |-> thalweg_tiles(ths[n], tiles, thalweg_buffer)]
  IN group_thalwegs(Len(ths), ths, tiles_of)

\* ------------------------------------------------------- the cache folder
cache_folder == <<".", "/", "Cache", "/">>

\* cache_folder + basename(dems_json_file) + '_' + basename(thalweg_shp_fname) + '_grouping.cache'
cache_name(dems_json_file, thalweg_shp_fname) ==
  cache_folder \o basename(dems_json_file) \o <<"_">> \o basename(thalweg_shp_fname)
               \o <<"_grouping.cache">>

CacheNames == {cache_name(a.dems_json_file, a.thalweg_shp_fname) : a \in RunArgs}

\* content of a file: no such file, an empty (just opened for writing) file,
\* or a pickle stream of one object
NoFile == <<"ENOENT">>
EmptyFile == <<>>
pickle_dumps(obj) == <<"PICKLE", obj>>
pickle_ok(data) == Len(data) = 2 /\ data[1] = "PICKLE"
pickle_loads(data) == data[2]

\* [thalwegs2tile_groups, tile_groups_files, tile_groups2thalwegs], line 149:
\* the three variables as they are, each None or Some(value)
dump_list(v) == <<v.thalwegs2tile_groups, v.tile_groups_files, v.tile_groups2thalwegs>>

\* thalwegs2tile_groups, tile_groups_files, tile_groups2thalwegs = ..., line 135
unpack_list(l) ==
  [thalwegs2tile_groups |-> l[1], tile_groups_files |-> l[2], tile_groups2thalwegs |-> l[3]]

\* the values of three variables none of which is None
values_of(v) ==
  [thalwegs2tile_groups |-> v.thalwegs2tile_groups[1],
   tile_groups_files |-> v.tile_groups_files[1],
   tile_groups2thalwegs |-> v.tile_groups2thalwegs[1]]

\* --------------------------------------------------- the output directory
\* bug: the prefix names the per-rank ordinal only
output_prefix_ordinal(my_group_id, rank, k) == <<"Group_">> \o str(k) \o <<"_">>

\* f'Group_{my_group_id}_{rank}_{i}_', line 207
output_prefix(my_group_id, rank, k) ==
  <<"Group_">> \o str(my_group_id) \o <<"_">> \o str(rank) \o <<"_">> \o str(k) \o <<"_">>

\* the files one make_river_map invocation can leave in output_dir: one per
\* category merge_outputs looks for, output_prefix first
MapSuffixes ==
  {"total_arcs.map", "intersection_joints.map", "river_arcs.map", "centerlines.map",
   "bank_final.map"}
ShpSuffixes == {"river_outline.shp", "bomb_polygons.shp"}
PartialSuffixes == MapSuffixes \cup ShpSuffixes

\* a file of output_dir: its name, whether the running job wrote it, and the
\* features of a shapefile
OutFile(name, current) == [name |-> name, current |-> current, features |-> <<>>]
OutShp(name, current, features) == [name |-> name, current |-> current, features |-> features]

\* the features make_river_map draws for the thalwegs of a group, in the
\* coordinate system of the DEM tiles
river_features(kind, selected_thalweg) ==
  [k \in 1..Len(selected_thalweg) |-> [kind |-> kind, river |-> selected_thalweg[k], crs |-> "native"]]

\* the files of the invocation c: the maps always; the shapefiles when the
\* group has a DEM tile to find the banks of its thalwegs in
make_river_map_files(c) ==
  {OutFile(c.output_prefix \o <<x>>, TRUE) : x \in MapSuffixes}
    \cup (IF c.tif_fnames = <<>> THEN {}
         ELSE {OutShp(c.output_prefix \o <<"river_outline.shp">>, TRUE,
                      river_features("outline", c.selected_thalweg)),
               OutShp(c.output_prefix \o <<"bomb_polygons.shp">>, TRUE,
                      river_features("bomb", c.selected_thalweg))})

\* writing files into a directory replaces the files of the same names
write_files(files, new) == {g \in files : \A f \in new : g.name # f.name} \cup new

\* silentremove(output_dir); os.makedirs(output_dir): the directory, emptied
silentremove(files) == {}

\* the directory or file `path` lies in the directory `dir` (or is it): the
\* removal of `dir` takes it along
inside(path, dir) == Len(dir) <= Len(path) /\ SubSeq(path, 1, Len(dir)) = dir

\* numpy boolean-mask indexing a[mask]
mask_select(a, mask) ==
  LET RECURSIVE sel(_)
      sel(k) == IF k = 0 THEN <<>>
                ELSE sel(k - 1) \o (IF mask[k] THEN <<a[k]>> ELSE <<>>)
  IN sel(Len(a))

\* ------------------------------------------------------------- the ranks
Ranks == 0..(MaxSize - 1)
Active == {r \in Ranks : r < run.size}

NoGrp == [thalwegs2tile_groups |-> None, tile_groups_files |-> None, tile_groups2thalwegs |-> None]

NoLog == [wiped |-> FALSE, stale_removed |-> FALSE, load |-> "none", find_calls |-> 0, coordinator |-> None,
          persisted |-> FALSE, merge_input |-> None,
          parsed |-> {},           \* <<rank, tile file>>: Tif2XYZ calls of the pre-caching phase
          failed |-> {},           \* <<rank, group id>>: make_river_map invocations that raised
          merge_calls |-> <<>>,    \* the ranks that entered merge_outputs, in order
          merge_returned |-> FALSE,
          merge_raised |-> FALSE,
          cleanup_calls |-> <<>>,  \* <<rank, had merge_outputs returned>> per final_clean_up call
          total_writers |-> {}]    \* the ranks that wrote a merged file

EmptyFs == [n \in CacheNames |-> NoFile]

\* the state of the ranks when mpirun launches the job
LaunchRun(args, size) ==
  [dems_json_file |-> args.dems_json_file, thalweg_shp_fname |-> args.thalweg_shp_fname,
   output_dir |-> args.output_dir, thalweg_buffer |-> args.thalweg_buffer, size |-> size]
LaunchPc(size) == [r \in Ranks |-> IF r < size THEN "L119" ELSE "off"]
LaunchGrp == [r \in Ranks |-> NoGrp]
LaunchShare == [r \in Ranks |-> None]
LaunchLoop == [r \in Ranks |-> 0]
LaunchSeqs == [r \in Ranks |-> <<>>]

\* no job at all (my_mpi_idx studied on its own)
NoRun ==
  /\ run = [dems_json_file |-> <<>>, thalweg_shp_fname |-> <<>>, output_dir |-> default_output_dir,
            thalweg_buffer |-> 0, size |-> 0]
  /\ pc = LaunchPc(0)
  /\ grp = LaunchGrp
  /\ share = LaunchShare
  /\ i_loop = LaunchLoop
  /\ bcastq = LaunchSeqs
  /\ calls = LaunchSeqs
  /\ log = NoLog
  /\ cacheFs = EmptyFs
  /\ outFs = [d \in OutputDirs |-> {}]
  /\ prev = None

\* ------------------------------------------- my_mpi_idx applied on its own
InitPart ==
  /\ pN \in 0..MaxN
  /\ pSize \in 1..MaxPSize
  /\ pRes = [r \in 0..(MaxPSize - 1) |-> None]
  /\ NoRun

\* one rank calls my_mpi_idx(pN, pSize, r)
ApplyPartition(r) ==
  /\ r < pSize
  /\ pRes[r] = None
  /\ pRes' = [pRes EXCEPT ![r] = Some(my_mpi_idx(pN, pSize, r))]
  /\ UNCHANGED <<pN, pSize>>
  /\ UNCHANGED rvars

NextPart == \E r \in 0..(MaxPSize - 1) : ApplyPartition(r)

SpecPart == InitPart /\ [][NextPart]_vars

\* ranks that have called / that got a share back
PCalled == {r \in 0..(pSize - 1) : pRes[r] # None}
PReturned == {r \in PCalled : ~pRes[r][1].raised}
PIds(r) == pRes[r][1].my_group_ids
PIdSet(r) == {PIds(r)[j] : j \in 1..Len(PIds(r))}
PAllCalled == PCalled = 0..(pSize - 1)

\* C1: partition coverage. The index sets my_mpi_idx returns to the ranks
\* 0..size-1 hold no index twice, are pairwise disjoint, and once every rank
\* has called, their union is exactly {0,...,N-1}; for N >= 1 every rank gets
\* a share back.
PartitionCoverage ==
  /\ \A r \in PReturned : Cardinality(PIdSet(r)) = Len(PIds(r))
  /\ \A r1, r2 \in PReturned : r1 # r2 => PIdSet(r1) \cap PIdSet(r2) = {}
  /\ pN >= 1 => PReturned = PCalled
  /\ PAllCalled => UNION {PIdSet(r) : r \in PReturned} = 0..(pN - 1)

PartitionCoverageWitness ==
  /\ PAllCalled /\ PReturned = PCalled
  /\ pSize >= 3 /\ pN > pSize /\ pN % pSize # 0

\* C2: partition balance. The share lengths differ by at most one, and the
\* shares of length floor(N/size)+1 are exactly those of the first N mod size
\* ranks.
PartitionBalance ==
  /\ \A r1, r2 \in PReturned : Len(PIds(r1)) - Len(PIds(r2)) <= 1
  /\ \A r \in PReturned :
        /\ Len(PIds(r)) \in {pN \div pSize, (pN \div pSize) + 1}
        /\ (Len(PIds(r)) = (pN \div pSize) + 1) <=> (r < pN % pSize)

PartitionBalanceWitness ==
  /\ PAllCalled /\ pSize >= 3
  /\ \E r1, r2 \in PReturned : Len(PIds(r1)) = Len(PIds(r2)) + 1 /\ Len(PIds(r2)) >= 1

\* C3: partition contiguity. Each share is an ascending run of consecutive
\* indices, and every index of rank r's share is smaller than every index of
\* rank r+1's share.
PartitionContiguity ==
  /\ \A r \in PReturned : \A j \in 1..(Len(PIds(r)) - 1) : PIds(r)[j + 1] = PIds(r)[j] + 1
  /\ \A r \in PReturned : (r + 1) \in PReturned =>
        \A a \in PIdSet(r), b \in PIdSet(r + 1) : a < b

PartitionContiguityWitness ==
  /\ PAllCalled /\ pSize >= 2
  /\ \A r \in PReturned : Len(PIds(r)) >= 2
  /\ PReturned = PCalled

\* ======================================================================
\* river_map_mpi_driver, lines 112-223, run by the ranks of one job
\* ======================================================================
Min(a, b) == IF a <= b THEN a ELSE b

\* comm.Barrier(): no rank leaves before every rank of the job has arrived
\* (nxt: where each rank goes on)
Barrier(l, nxt) ==
  /\ Active # {}
  /\ \A r \in Active : pc[r] = l
  /\ pc' = [r \in Ranks |-> IF r \in Active THEN nxt[r] ELSE pc[r]]

\* comm.bcast(obj, root=0): the root hands its value to every other rank and
\* goes on; another rank returns from the call with the value once it is there
bcast(l, nxt, sent, received) ==
  \/ /\ pc[0] = l
     /\ bcastq' = [r \in Ranks |->
                     IF r \in Active \ {0} THEN Append(bcastq[r], grp[0][sent]) ELSE bcastq[r]]
     /\ pc' = [pc EXCEPT ![0] = nxt]
     /\ UNCHANGED grp
  \/ \E r \in Active \ {0} :
       /\ pc[r] = l
       /\ bcastq[r] # <<>>
       /\ grp' = [grp EXCEPT ![r][received] = Head(bcastq[r])]
       /\ bcastq' = [bcastq EXCEPT ![r] = Tail(@)]
       /\ pc' = [pc EXCEPT ![r] = nxt]

After119 == [r \in Ranks |-> IF r = 0 THEN "L124" ELSE "L151"]

\* line 119
Barrier119 ==
  /\ Barrier("L119", After119)
  /\ UNCHANGED <<pvars, run, grp, share, i_loop, bcastq, cacheFs, outFs, calls, log, prev>>

\* bug: the previous run's directory is kept (only os.makedirs(exist_ok=True))
CleanOutputDirKeep ==
  /\ pc[0] = "L124"
  /\ pc' = [pc EXCEPT ![0] = "L128"]
  /\ log' = [log EXCEPT !.wiped = TRUE, !.stale_removed = (outFs[run.output_dir] # {})]
  /\ UNCHANGED <<pvars, run, grp, share, i_loop, bcastq, cacheFs, outFs, calls, prev>>

\* lines 122-125, rank 0: silentremove(output_dir); os.makedirs(output_dir).
\* What lies in output_dir goes with it: a directory of outputs in it, and
\* cache_folder './Cache/' when output_dir is the default './'.
CleanOutputDir ==
  /\ pc[0] = "L124"
  /\ outFs' = [d \in OutputDirs |-> IF inside(d, run.output_dir) THEN silentremove(outFs[d])
                                    ELSE outFs[d]]
  /\ cacheFs' = IF inside(cache_folder, run.output_dir) THEN EmptyFs ELSE cacheFs
  /\ pc' = [pc EXCEPT ![0] = "L128"]
  /\ log' = [log EXCEPT !.wiped = TRUE, !.stale_removed = (outFs[run.output_dir] # {})]
  /\ UNCHANGED <<pvars, run, grp, share, i_loop, bcastq, calls, prev>>

\* lines 127-139, rank 0: read the grouping cache.  FileNotFoundError is
\* caught; any other error of pickle.load or of the unpacking leaves the rank.
\* After the load line 139 tests thalwegs2tile_groups: when the file gave None
\* for it the grouping is computed as if there were no file.
LoadCache ==
  /\ pc[0] = "L128"
  /\ LET data == cacheFs[cache_name(run.dems_json_file, run.thalweg_shp_fname)]
     IN IF data = NoFile
        THEN /\ pc' = [pc EXCEPT ![0] = "L140"]
             /\ log' = [log EXCEPT !.load = "miss"]
             /\ UNCHANGED grp
        ELSE IF pickle_ok(data) /\ Len(pickle_loads(data)) = 3
        THEN LET v == unpack_list(pickle_loads(data))
             IN /\ grp' = [grp EXCEPT ![0] = v]
                /\ IF v.thalwegs2tile_groups = None
                   THEN /\ pc' = [pc EXCEPT ![0] = "L140"]
                        /\ log' = [log EXCEPT !.load = "miss"]
                   ELSE /\ pc' = [pc EXCEPT ![0] = "L151"]
                        /\ log' = [log EXCEPT
                             !.load = "hit",
                             !.coordinator =
                               IF v.tile_groups_files # None /\ v.tile_groups2thalwegs # None
                               THEN Some(values_of(v)) ELSE None]
        ELSE /\ pc' = [pc EXCEPT ![0] = "aborted"]
             /\ log' = [log EXCEPT !.load = "corrupt"]
             /\ UNCHANGED grp
  /\ UNCHANGED <<pvars, run, share, i_loop, bcastq, cacheFs, outFs, calls, prev>>

\* lines 139-146, rank 0: thalwegs2tile_groups is None, so compute the grouping
ComputeGrouping ==
  /\ pc[0] = "L140"
  /\ LET g == find_thalweg_tile(run.dems_json_file, run.thalweg_shp_fname, run.thalweg_buffer)
     IN /\ grp' = [grp EXCEPT ![0] =
                     [thalwegs2tile_groups |-> Some(g.thalwegs2tile_groups),
                      tile_groups_files |-> Some(g.tile_groups_files),
                      tile_groups2thalwegs |-> Some(g.tile_groups2thalwegs)]]
        /\ log' = [log EXCEPT !.find_calls = @ + 1, !.coordinator = Some(g)]
  /\ pc' = [pc EXCEPT ![0] = "L148"]
  /\ UNCHANGED <<pvars, run, share, i_loop, bcastq, cacheFs, outFs, calls, prev>>

\* line 148, rank 0: open(cache_name, 'wb') creates or truncates the file
OpenCacheForWrite ==
  /\ pc[0] = "L148"
  /\ cacheFs' = [cacheFs EXCEPT ![cache_name(run.dems_json_file, run.thalweg_shp_fname)] = EmptyFile]
  /\ pc' = [pc EXCEPT ![0] = "L149"]
  /\ UNCHANGED <<pvars, run, grp, share, i_loop, bcastq, outFs, calls, log, prev>>

\* the values of the three variables of rank r as one record
MyGrouping(r) == values_of(grp[r])

\* line 149, rank 0: pickle.dump([...], file), and the file is closed
DumpCache ==
  /\ pc[0] = "L149"
  /\ cacheFs' = [cacheFs EXCEPT ![cache_name(run.dems_json_file, run.thalweg_shp_fname)] =
                   pickle_dumps(dump_list(grp[0]))]
  /\ pc' = [pc EXCEPT ![0] = "L151"]
  /\ log' = [log EXCEPT !.persisted = TRUE]
  /\ UNCHANGED <<pvars, run, grp, share, i_loop, bcastq, outFs, calls, prev>>

\* line 151
Bcast151 ==
  /\ bcast("L151", "L152", "thalwegs2tile_groups", "thalwegs2tile_groups")
  /\ UNCHANGED <<pvars, run, share, i_loop, cacheFs, outFs, calls, log, prev>>

\* bug: line 152 drops what comm.bcast returns, so only the root has the value
Bcast152Unassigned ==
  /\ \/ /\ pc[0] = "L152"
        /\ bcastq' = [r \in Ranks |->
                        IF r \in Active \ {0} THEN Append(bcastq[r], grp[0].tile_groups_files)
                        ELSE bcastq[r]]
        /\ pc' = [pc EXCEPT ![0] = "L153"]
     \/ \E r \in Active \ {0} :
          /\ pc[r] = "L152"
          /\ bcastq[r] # <<>>
          /\ bcastq' = [bcastq EXCEPT ![r] = Tail(@)]
          /\ pc' = [pc EXCEPT ![r] = "L153"]
  /\ UNCHANGED <<pvars, run, grp, share, i_loop, cacheFs, outFs, calls, log, prev>>

\* line 152
Bcast152 ==
  /\ bcast("L152", "L153", "tile_groups_files", "tile_groups_files")
  /\ UNCHANGED <<pvars, run, share, i_loop, cacheFs, outFs, calls, log, prev>>

\* lines 155-161, rank 0: the groups are printed, which takes the length of
\* tile_groups2thalwegs (line 156) and reads tile_groups_files[i] for every
\* index i of tile_groups2thalwegs (line 160)
print_groups_raises ==
  \/ grp[0].tile_groups2thalwegs = None
  \/ (grp[0].tile_groups_files = None /\ Len(grp[0].tile_groups2thalwegs[1]) > 0)
  \/ (grp[0].tile_groups_files # None
        /\ Len(grp[0].tile_groups_files[1]) < Len(grp[0].tile_groups2thalwegs[1]))

\* lines 153-161
Bcast153 ==
  /\ bcast("L153", IF pc[0] = "L153" /\ print_groups_raises THEN "aborted" ELSE "L163",
           "tile_groups2thalwegs", "tile_groups2thalwegs")
  /\ UNCHANGED <<pvars, run, share, i_loop, cacheFs, outFs, calls, log, prev>>

After163 == [r \in Ranks |-> "L165"]
After165 == [r \in Ranks |-> "L167"]
After183 == [r \in Ranks |-> "L185"]
After185 == [r \in Ranks |-> "L187"]
After192 == [r \in Ranks |-> "L194"]

\* line 163
Barrier163 ==
  /\ Barrier("L163", After163)
  /\ UNCHANGED <<pvars, run, grp, share, i_loop, bcastq, cacheFs, outFs, calls, log, prev>>

\* line 165
Barrier165 ==
  /\ Barrier("L165", After165)
  /\ UNCHANGED <<pvars, run, grp, share, i_loop, bcastq, cacheFs, outFs, calls, log, prev>>

\* line 78 (default of the parameter) and line 109
i_DEM_cache == TRUE
iValidateCache == FALSE

\* None where a tile file name is expected: file names are tokens, and no
\* file is named so
NoTile == "None"

RECURSIVE unique_files(_, _)
\* lines 170-172, inner loop: the files of a group that are not yet in the
\* list and are not None
unique_files(group, seen) ==
  IF Len(group) = 0 THEN seen
  ELSE unique_files(Tail(group),
                    IF (~\E k \in 1..Len(seen) : seen[k] = Head(group)) /\ Head(group) # NoTile
                    THEN Append(seen, Head(group))
                    ELSE seen)

RECURSIVE unique_tile_files(_)
\* lines 168-173: the tile files of all groups, each once, in order of first use
unique_tile_files(tile_groups_files) ==
  IF Len(tile_groups_files) = 0 THEN <<>>
  ELSE unique_files(tile_groups_files[Len(tile_groups_files)],
                    unique_tile_files(SubSeq(tile_groups_files, 1, Len(tile_groups_files) - 1)))

\* line 176, unique_tile_files[my_mpi_idx(...)]: the index is the pair
\* (my_group_ids, i_my_groups), two indices into an array of one dimension,
\* which raises IndexError; so does my_mpi_idx itself for an empty list
precache_share(tiles, size, rank) ==
  LET m == my_mpi_idx(Len(tiles), size, rank)
  IN [raised |-> TRUE, tiles |-> mask_select(tiles, m.i_my_groups)]

\* lines 167-181: the list of unique tile files is built; with iValidateCache
\* False (line 109) the loop of Tif2XYZ calls is not entered
PreCache(r) ==
  /\ r \in Active
  /\ pc[r] = "L167"
  /\ LET tiles == unique_tile_files(MyGrouping(r).tile_groups_files)
         mine == precache_share(tiles, run.size, r)
     IN IF i_DEM_cache /\ grp[r].tile_groups_files = None
        THEN \* line 169 iterates over None: TypeError
             /\ pc' = [pc EXCEPT ![r] = "aborted"]
             /\ UNCHANGED log
        ELSE IF i_DEM_cache /\ iValidateCache
        THEN IF mine.raised
             THEN /\ pc' = [pc EXCEPT ![r] = "aborted"]
                  /\ UNCHANGED log
             ELSE /\ pc' = [pc EXCEPT ![r] = "L183"]
                  /\ log' = [log EXCEPT !.parsed =
                               @ \cup {<<r, mine.tiles[k]>> : k \in 1..Len(mine.tiles)}]
        ELSE /\ pc' = [pc EXCEPT ![r] = "L183"]
             /\ UNCHANGED log
  /\ UNCHANGED <<pvars, run, grp, share, i_loop, bcastq, cacheFs, outFs, calls, prev>>

\* line 183
Barrier183 ==
  /\ Barrier("L183", After183)
  /\ UNCHANGED <<pvars, run, grp, share, i_loop, bcastq, cacheFs, outFs, calls, log, prev>>

\* line 185
Barrier185 ==
  /\ Barrier("L185", After185)
  /\ UNCHANGED <<pvars, run, grp, share, i_loop, bcastq, cacheFs, outFs, calls, log, prev>>

\* bug: groups without tile files are dropped from the rank's list
my_tile_groups_nonempty(tile_groups_files, i_my_groups) ==
  LET a == mask_select(tile_groups_files, i_my_groups)
  IN mask_select(a, [k \in 1..Len(a) |-> a[k] # <<>>])

\* line 188: my_tile_groups = tile_groups_files[i_my_groups]
my_tile_groups(tile_groups_files, i_my_groups) == mask_select(tile_groups_files, i_my_groups)

\* numpy a[mask] raises IndexError when the boolean mask has not the length
\* of the array
mask_index_raises(a, mask) == Len(a) # Len(mask)

\* lines 187-190: the rank's share of the groups; the rank leaves when
\* my_mpi_idx raises (line 187) or a mask does not fit (lines 188, 189)
AssignGroups(r) ==
  /\ r \in Active
  /\ pc[r] = "L187"
  /\ LET g == MyGrouping(r)
         m == my_mpi_idx(Len(g.tile_groups_files), run.size, r)
     IN IF \/ m.raised
           \/ mask_index_raises(g.tile_groups_files, m.i_my_groups)
           \/ mask_index_raises(g.tile_groups2thalwegs, m.i_my_groups)
        THEN /\ pc' = [pc EXCEPT ![r] = "aborted"]
             /\ UNCHANGED share
        ELSE /\ share' = [share EXCEPT ![r] = Some(
                 [my_group_ids |-> m.my_group_ids,
                  i_my_groups |-> m.i_my_groups,
                  my_tile_groups |-> my_tile_groups(g.tile_groups_files, m.i_my_groups),
                  my_tile_groups_thalwegs |-> mask_select(g.tile_groups2thalwegs, m.i_my_groups)])]
             /\ pc' = [pc EXCEPT ![r] = "L192"]
  /\ UNCHANGED <<pvars, run, grp, i_loop, bcastq, cacheFs, outFs, calls, log, prev>>

\* the number of rounds of the loop of line 198: zip stops at the shortest
LoopLen(r) ==
  Min(Len(share[r][1].my_group_ids),
      Min(Len(share[r][1].my_tile_groups), Len(share[r][1].my_tile_groups_thalwegs)))

After194 == [r \in Ranks |-> IF r \in Active /\ LoopLen(r) > 0 THEN "L198" ELSE "L217"]

\* line 192
Barrier192 ==
  /\ Barrier("L192", After192)
  /\ UNCHANGED <<pvars, run, grp, share, i_loop, bcastq, cacheFs, outFs, calls, log, prev>>

\* line 194
Barrier194 ==
  /\ Barrier("L194", After194)
  /\ UNCHANGED <<pvars, run, grp, share, i_loop, bcastq, cacheFs, outFs, calls, log, prev>>

\* the arguments of the make_river_map call of lines 202-209
make_river_map_args(r) ==
  LET k == i_loop[r]
      my_group_id == share[r][1].my_group_ids[k + 1]
  IN [my_group_id |-> my_group_id,
      i |-> k,
      tif_fnames |-> share[r][1].my_tile_groups[k + 1],
      selected_thalweg |-> share[r][1].my_tile_groups_thalwegs[k + 1],
      output_prefix |-> output_prefix(my_group_id, r, k)]

\* bug: the next invocation is started without waiting for the running one
StartGroupAsync(r) ==
  /\ r \in Active
  /\ pc[r] \in {"L198", "L202"}
  /\ Len(calls[r]) < LoopLen(r)
  /\ calls' = [calls EXCEPT ![r] = Append(@,
       LET k == Len(calls[r])
           my_group_id == share[r][1].my_group_ids[k + 1]
       IN [my_group_id |-> my_group_id,
           i |-> k,
           tif_fnames |-> share[r][1].my_tile_groups[k + 1],
           selected_thalweg |-> share[r][1].my_tile_groups_thalwegs[k + 1],
           output_prefix |-> output_prefix(my_group_id, r, k)])]
  /\ pc' = [pc EXCEPT ![r] = "L202"]
  /\ UNCHANGED <<pvars, run, grp, share, i_loop, bcastq, cacheFs, outFs, log, prev>>

\* lines 198-202: the next round of the loop enters make_river_map
StartGroup(r) ==
  /\ r \in Active
  /\ pc[r] = "L198"
  /\ calls' = [calls EXCEPT ![r] = Append(@, make_river_map_args(r))]
  /\ pc' = [pc EXCEPT ![r] = "L202"]
  /\ UNCHANGED <<pvars, run, grp, share, i_loop, bcastq, cacheFs, outFs, log, prev>>

\* lines 202-213: make_river_map returns, its files are in output_dir
ReturnGroup(r) ==
  /\ r \in Active
  /\ pc[r] = "L202"
  /\ outFs' = [outFs EXCEPT ![run.output_dir] =
                 write_files(@, make_river_map_files(calls[r][Len(calls[r])]))]
  /\ i_loop' = [i_loop EXCEPT ![r] = @ + 1]
  /\ pc' = [pc EXCEPT ![r] = IF i_loop[r] + 1 < LoopLen(r) THEN "L198" ELSE "L217"]
  /\ UNCHANGED <<pvars, run, grp, share, bcastq, cacheFs, calls, log, prev>>

\* bug: the exception is swallowed and the loop goes on with the next group
RaiseGroupSkipped(r) ==
  /\ r \in Active
  /\ pc[r] = "L202"
  /\ i_loop' = [i_loop EXCEPT ![r] = @ + 1]
  /\ pc' = [pc EXCEPT ![r] = IF i_loop[r] + 1 < LoopLen(r) THEN "L198" ELSE "L217"]
  /\ log' = [log EXCEPT !.failed = @ \cup {<<r, calls[r][Len(calls[r])].my_group_id>>}]
  /\ UNCHANGED <<pvars, run, grp, share, bcastq, cacheFs, outFs, calls, prev>>

\* lines 202-209: make_river_map raises; nothing catches it
RaiseGroup(r) ==
  /\ r \in Active
  /\ pc[r] = "L202"
  /\ pc' = [pc EXCEPT ![r] = "aborted"]
  /\ log' = [log EXCEPT !.failed = @ \cup {<<r, calls[r][Len(calls[r])].my_group_id>>}]
  /\ UNCHANGED <<pvars, run, grp, share, i_loop, bcastq, cacheFs, outFs, calls, prev>>

\* bug: the test rank == 0 of line 220 is missing, every rank merges
After217Everyone == [r \in Ranks |-> "L221"]

\* lines 217-223: rank 0 goes on to merge_outputs, the others return
After217 == [r \in Ranks |-> IF r = 0 THEN "L221" ELSE "done"]

\* bug: no barrier before the merge, a rank goes on as soon as its loop ends
Barrier217Missing ==
  /\ \E r \in Active :
       /\ pc[r] = "L217"
       /\ pc' = [pc EXCEPT ![r] = After217[r]]
  /\ UNCHANGED <<pvars, run, grp, share, i_loop, bcastq, cacheFs, outFs, calls, log, prev>>

\* line 217
Barrier217 ==
  /\ Barrier("L217", After217)
  /\ UNCHANGED <<pvars, run, grp, share, i_loop, bcastq, cacheFs, outFs, calls, log, prev>>

\* the partial files of output_dir, the merged ones have a name of one token
PartialFiles(files) == {f \in files : Len(f.name) > 1}

MergedNames ==
  {<<"total_arcs.map">>, <<"total_intersection_joints.map">>, <<"total_river_arcs.map">>,
   <<"total_centerlines.map">>, <<"total_banks_final.map">>, <<"total_river_outline.shp">>,
   <<"total_bomb_polygons.shp">>}

\* the last tokens of the file names of output_dir that end the way a glob
\* pattern of lines 43-50 asks for
GlobTails(pattern) ==
  IF pattern = "*_total_arcs.map" THEN {"total_arcs.map"}
  ELSE IF pattern = "*intersection_joints*.map"
  THEN {"intersection_joints.map", "total_intersection_joints.map"}
  ELSE IF pattern = "*river_arcs.map" THEN {"river_arcs.map", "total_river_arcs.map"}
  ELSE IF pattern = "*centerlines.map" THEN {"centerlines.map", "total_centerlines.map"}
  ELSE IF pattern = "*bank_final*.map" THEN {"bank_final.map"}
  ELSE IF pattern = "*river_outline*.shp" THEN {"river_outline.shp", "total_river_outline.shp"}
  ELSE IF pattern = "*bomb*.shp" THEN {"bomb_polygons.shp", "total_bomb_polygons.shp"}
  ELSE {}

\* glob(f'{output_dir}/pattern'): the files whose name matches; the "_" that
\* '*_total_arcs.map' asks for is the end of an output_prefix
glob(pattern, files) ==
  {f \in files :
     /\ f.name[Len(f.name)] \in GlobTails(pattern)
     /\ (pattern = "*_total_arcs.map") => (Len(f.name) > 1 /\ f.name[Len(f.name) - 1] = "_")}

\* GeoDataFrame.to_crs: every feature is kept and given in the asked system
to_crs(features, crs) == [k \in 1..Len(features) |-> [features[k] EXCEPT !.crs = crs]]

RECURSIVE glob_lists(_)
\* the lists glob can return for a set of matching files: the files in the
\* order the directory gives them, which is any order
glob_lists(files) ==
  IF files = {} THEN {<<>>}
  ELSE UNION {{<<f>> \o l : l \in glob_lists(files \ {f})} : f \in files}

\* [gpd.read_file(x).to_crs('epsg:4326') for x in list]
read_files(list) == [k \in 1..Len(list) |-> to_crs(list[k].features, "epsg:4326")]

\* bug: only the frame read last is written (the frames are not concatenated)
concat_last(frames) ==
  IF Len(frames) = 0 THEN [raised |-> TRUE, features |-> <<>>]
  ELSE [raised |-> FALSE, features |-> frames[Len(frames)]]

RECURSIVE concat_frames(_)
\* the rows of the frames of a list one after the other
concat_frames(frames) ==
  IF Len(frames) = 0 THEN <<>>
  ELSE Head(frames) \o concat_frames(Tail(frames))

\* pandas.concat(objs): ValueError "No objects to concatenate" for an empty list
concat(frames) ==
  IF Len(frames) = 0 THEN [raised |-> TRUE, features |-> <<>>]
  ELSE [raised |-> FALSE, features |-> concat_frames(frames)]

\* merge_maps(pattern, merged_fname): the merged map is written
merge_maps(pattern, merged_fname, files) == write_files(files, {OutFile(merged_fname, TRUE)})

\* lines 43-47: the five merged maps, one after the other
merge_all_maps(files) ==
  LET f1 == merge_maps("*_total_arcs.map", <<"total_arcs.map">>, files)
      f2 == merge_maps("*intersection_joints*.map", <<"total_intersection_joints.map">>, f1)
      f3 == merge_maps("*river_arcs.map", <<"total_river_arcs.map">>, f2)
      f4 == merge_maps("*centerlines.map", <<"total_centerlines.map">>, f3)
  IN merge_maps("*bank_final*.map", <<"total_banks_final.map">>, f4)

\* lines 38-53 on the directory `files`, glob listing the shapefiles of lines
\* 49 and 50 as outline_list and bomb_list: the directory it leaves, and
\* whether line 49 or line 50 raised
merge_outputs(files, outline_list, bomb_list) ==
  LET f5 == merge_all_maps(files)
      outline == concat(read_files(outline_list))
      f6 == write_files(f5, {OutShp(<<"total_river_outline.shp">>, TRUE, outline.features)})
      bomb == concat(read_files(bomb_list))
      f7 == write_files(f6, {OutShp(<<"total_bomb_polygons.shp">>, TRUE, bomb.features)})
  IN IF outline.raised THEN [raised |-> TRUE, files |-> f5]
     ELSE IF bomb.raised THEN [raised |-> TRUE, files |-> f6]
     ELSE [raised |-> FALSE, files |-> f7]

\* lines 221, 38-40: a rank enters merge_outputs; the directory it finds
merge_outputs_begin ==
  \E r \in Active :
    /\ pc[r] = "L221"
    /\ log' = [log EXCEPT !.merge_input = Some(PartialFiles(outFs[run.output_dir])),
                          !.merge_calls = Append(@, r)]
    /\ pc' = [pc EXCEPT ![r] = "L43"]
    /\ UNCHANGED <<pvars, run, grp, share, i_loop, bcastq, cacheFs, outFs, calls, prev>>

\* lines 43-53: the merged files are written, up to the line that raises
merge_outputs_end ==
  \E r \in Active :
    /\ pc[r] = "L43"
    \* the merged file of line 49 does not match the pattern of line 50
    /\ \E outline_list \in glob_lists(glob("*river_outline*.shp",
                                             merge_all_maps(outFs[run.output_dir]))),
          bomb_list \in glob_lists(glob("*bomb*.shp", merge_all_maps(outFs[run.output_dir]))) :
       LET m == merge_outputs(outFs[run.output_dir], outline_list, bomb_list)
       IN /\ outFs' = [outFs EXCEPT ![run.output_dir] = m.files]
          /\ pc' = [pc EXCEPT ![r] = IF m.raised THEN "aborted" ELSE "L222"]
          /\ log' = [log EXCEPT !.merge_returned = ~m.raised,
                                !.merge_raised = m.raised,
                                !.total_writers = @ \cup {r}]
    /\ UNCHANGED <<pvars, run, grp, share, i_loop, bcastq, cacheFs, calls, prev>>

\* lines 222, 56-70: final_clean_up
final_clean_up ==
  \E r \in Active :
    /\ pc[r] = "L222"
    /\ outFs' = [outFs EXCEPT ![run.output_dir] =
                   write_files(@, {OutFile(<<"total_arcs.map">>, TRUE),
                                   OutFile(<<"total_river_arc_polygons.shp">>, TRUE)})]
    /\ pc' = [pc EXCEPT ![r] = "done"]
    /\ log' = [log EXCEPT !.cleanup_calls = Append(@, <<r, log.merge_returned>>),
                          !.total_writers = @ \cup {r}]
    /\ UNCHANGED <<pvars, run, grp, share, i_loop, bcastq, cacheFs, calls, prev>>

\* ---------------------------------------------------------- run after run
Finished == \A r \in Active : pc[r] = "done"

\* what a run leaves behind for the next one
NextJob(args, size) ==
  /\ run' = LaunchRun(args, size)
  /\ pc' = LaunchPc(size)
  /\ grp' = LaunchGrp
  /\ share' = LaunchShare
  /\ i_loop' = LaunchLoop
  /\ bcastq' = LaunchSeqs
  /\ calls' = LaunchSeqs
  /\ log' = NoLog
  /\ outFs' = [d \in OutputDirs |-> {[f EXCEPT !.current = FALSE] : f \in outFs[d]}]
  /\ prev' = IF log.persisted
             THEN Some([dems_json_file |-> run.dems_json_file,
                        thalweg_shp_fname |-> run.thalweg_shp_fname,
                        size |-> run.size,
                        grouping |-> log.coordinator[1]])
             ELSE None
  /\ UNCHANGED <<pvars, cacheFs>>

\* the job has returned on every rank and the driver is run again
Rerun == Finished /\ \E args \in RunArgs, size \in 1..MaxSize : NextJob(args, size)

\* the job is terminated from outside (operator, scheduler, MPI runtime after
\* a rank died) and the driver is run again
KillAndRerun == ~Finished /\ \E args \in RunArgs, size \in 1..MaxSize : NextJob(args, size)

Init ==
  /\ pN = 0 /\ pSize = 1 /\ pRes = [r \in 0..(MaxPSize - 1) |-> None]
  /\ \E args \in RunArgs, size \in 1..MaxSize :
       /\ run = LaunchRun(args, size)
       /\ pc = LaunchPc(size)
  /\ grp = LaunchGrp
  /\ share = LaunchShare
  /\ i_loop = LaunchLoop
  /\ bcastq = LaunchSeqs
  /\ calls = LaunchSeqs
  /\ log = NoLog
  /\ cacheFs = EmptyFs
  /\ outFs = [d \in OutputDirs |-> {}]
  /\ prev = None

Next ==
  \/ Barrier119
  \/ CleanOutputDir
  \/ LoadCache
  \/ ComputeGrouping
  \/ OpenCacheForWrite
  \/ DumpCache
  \/ Bcast151
  \/ Bcast152
  \/ Bcast153
  \/ Barrier163
  \/ Barrier165
  \/ \E r \in Ranks : PreCache(r)
  \/ Barrier183
  \/ Barrier185
  \/ \E r \in Ranks : AssignGroups(r)
  \/ Barrier192
  \/ Barrier194
  \/ \E r \in Ranks : StartGroup(r)
  \/ \E r \in Ranks : ReturnGroup(r)
  \/ \E r \in Ranks : RaiseGroup(r)
  \/ Barrier217
  \/ merge_outputs_begin
  \/ merge_outputs_end
  \/ final_clean_up
  \/ Rerun
  \/ KillAndRerun

Spec == Init /\ [][Next]_vars

\* ======================================================================
\* properties of a job
\* ======================================================================
AfterLoop == {"L217", "L221", "L43", "L222", "done"}
AfterBcast == {"L163", "L165", "L167", "L183", "L185", "L187", "L192", "L194", "L198", "L202"}
                \cup AfterLoop
AllCalls == UNION {{<<r, k>> : k \in 1..Len(calls[r])} : r \in Active}
Call(c) == calls[c[1]][c[2]]
NGroups == Len(log.coordinator[1].tile_groups_files)

\* C4: exactly-once processing. No group is passed to make_river_map twice,
\* and in a run where every rank has left its loop (no invocation failed)
\* every group 0..N-1 of the broadcast grouping has been passed exactly once,
\* by one rank, with its own tile-file list, an empty list included.
ExactlyOnceProcessing ==
  /\ \A c1, c2 \in AllCalls : c1 # c2 => Call(c1).my_group_id # Call(c2).my_group_id
  /\ (Active # {} /\ \A r \in Active : pc[r] \in AfterLoop) =>
       \A g \in 0..(NGroups - 1) :
         \E c \in AllCalls :
           /\ Call(c).my_group_id = g
           /\ Call(c).tif_fnames = log.coordinator[1].tile_groups_files[g + 1]

ExactlyOnceProcessingWitness ==
  /\ run.size >= 2 /\ Finished
  /\ NGroups >= 3
  /\ \E c \in AllCalls :
       /\ Call(c).tif_fnames = <<>>
       /\ log.coordinator[1].tile_groups_files[Call(c).my_group_id + 1] = <<>>

\* C5: merge after processing. Once merge_outputs has listed the output
\* directory, every rank has returned from all its make_river_map invocations,
\* the files of every invocation were there to be listed, and no partial file
\* has been written since.
MergeAfterProcessing ==
  log.merge_input # None =>
    /\ \A r \in Active : pc[r] \in AfterLoop \cup {"aborted"} /\ i_loop[r] = Len(calls[r])
    /\ \A c \in AllCalls : make_river_map_files(Call(c)) \subseteq log.merge_input[1]
    /\ PartialFiles(outFs[run.output_dir]) = log.merge_input[1]

MergeAfterProcessingWitness ==
  /\ log.merge_input # None /\ pc[0] = "L222"
  /\ run.size >= 2
  /\ \A r \in Active : Len(calls[r]) >= 1

\* C6: clean output directory. Until the coordinator has emptied the output
\* directory no rank has written into it, and from then on it holds no file of
\* a previous run and every file the invocations of this run have written.
CleanOutputDirectory ==
  /\ ~log.wiped => \A f \in outFs[run.output_dir] : ~f.current
  /\ log.wiped => \A f \in outFs[run.output_dir] : f.current
  /\ \A r \in Active : \A k \in 1..i_loop[r] :
       make_river_map_files(calls[r][k]) \subseteq outFs[run.output_dir]

CleanOutputDirectoryWitness ==
  /\ log.wiped /\ log.stale_removed
  /\ log.merge_input # None
  /\ PartialFiles(outFs[run.output_dir]) # {}

\* C7: collision-free output names. Two different make_river_map invocations
\* of a run never get the same output_prefix, and the files they write have
\* different names.
CollisionFreeNames ==
  \A c1, c2 \in AllCalls : c1 # c2 =>
    /\ Call(c1).output_prefix # Call(c2).output_prefix
    /\ {f.name : f \in make_river_map_files(Call(c1))}
         \cap {f.name : f \in make_river_map_files(Call(c2))} = {}

CollisionFreeNamesWitness ==
  /\ \E r1, r2 \in Active : r1 # r2 /\ Len(calls[r1]) >= 2 /\ Len(calls[r2]) >= 1
  /\ \A r \in Active : pc[r] = "L202"

\* C8: same grouping everywhere. A rank that has returned from the three
\* broadcasts holds the triple the coordinator loaded or computed, and keeps
\* it through partitioning and group processing.
SameGroupingEverywhere ==
  \A r \in Active : pc[r] \in AfterBcast =>
    /\ grp[r].thalwegs2tile_groups # None
    /\ grp[r].tile_groups_files # None
    /\ grp[r].tile_groups2thalwegs # None
    /\ log.coordinator # None
    /\ MyGrouping(r) = log.coordinator[1]

SameGroupingEverywhereWitness ==
  /\ run.size >= 3
  /\ \A r \in Active : pc[r] \in AfterLoop
  /\ NGroups >= 3

\* the cache file of the run's key holds the pickled triple g
CacheHolds(g) ==
  cacheFs[cache_name(run.dems_json_file, run.thalweg_shp_fname)]
    = pickle_dumps(<<Some(g.thalwegs2tile_groups), Some(g.tile_groups_files),
                     Some(g.tile_groups2thalwegs)>>)

\* C9: grouping cache round trip. A run that misses the cache calls
\* find_thalweg_tile once and leaves its result in the cache file of its key;
\* the run that follows with the same DEM manifest and thalweg file takes the
\* grouping from the cache, does not call find_thalweg_tile, and uses on every
\* rank the grouping the first run computed, whatever the two sizes.
GroupingCacheRoundTrip ==
  /\ (log.load = "miss" /\ log.persisted) =>
       /\ log.find_calls = 1
       /\ log.coordinator = Some(find_thalweg_tile(run.dems_json_file, run.thalweg_shp_fname,
                                                    run.thalweg_buffer))
       /\ CacheHolds(log.coordinator[1])
  /\ (/\ prev # None
      /\ pc[0] \notin {"off", "L119", "L124", "L128"}
      /\ prev[1].dems_json_file = run.dems_json_file
      /\ prev[1].thalweg_shp_fname = run.thalweg_shp_fname) =>
       /\ log.load = "hit"
       /\ log.find_calls = 0
       /\ log.coordinator = Some(prev[1].grouping)
       /\ \A r \in Active : pc[r] \in AfterBcast => MyGrouping(r) = prev[1].grouping

\* the round trip where the cache folder is not in the output directory: the
\* cache file outlives the removal of line 124, and the run that follows with
\* the same two files loads the first run's grouping
GroupingCacheRoundTripApart ==
  /\ (log.load = "miss" /\ log.persisted) =>
       /\ log.find_calls = 1
       /\ log.coordinator = Some(find_thalweg_tile(run.dems_json_file, run.thalweg_shp_fname,
                                                    run.thalweg_buffer))
       /\ CacheHolds(log.coordinator[1])
  /\ (/\ prev # None
      /\ pc[0] \notin {"off", "L119", "L124", "L128"}
      /\ ~inside(cache_folder, run.output_dir)
      /\ prev[1].dems_json_file = run.dems_json_file
      /\ prev[1].thalweg_shp_fname = run.thalweg_shp_fname) =>
       /\ log.load = "hit"
       /\ log.find_calls = 0
       /\ log.coordinator = Some(prev[1].grouping)
       /\ \A r \in Active : pc[r] \in AfterBcast => MyGrouping(r) = prev[1].grouping

GroupingCacheRoundTripApartWitness ==
  /\ prev # None
  /\ ~inside(cache_folder, run.output_dir)
  /\ prev[1].dems_json_file = run.dems_json_file
  /\ prev[1].thalweg_shp_fname = run.thalweg_shp_fname
  /\ prev[1].size # run.size
  /\ Len(prev[1].grouping.tile_groups_files) >= 3
  /\ Finished

\* with the default output_dir the removal of line 124 takes './Cache/' along:
\* the run that follows a run which persisted the grouping of the same two
\* files finds no cache file and calls find_thalweg_tile again
DefaultOutputDirLosesCache ==
  (/\ prev # None
   /\ pc[0] \notin {"off", "L119", "L124", "L128"}
   /\ inside(cache_folder, run.output_dir)) =>
    /\ log.load = "miss"
    /\ pc[0] # "L140" => log.find_calls = 1

\* C10: cache corruption is not fatal. When the cache file is there but cannot
\* be decoded, the coordinator goes on to compute the grouping and to the
\* broadcast.
CacheCorruptionNotFatal ==
  log.load = "corrupt" => pc[0] # "aborted"

\* the coordinator leaves on anything but a missing or a well-formed cache
\* file, and every other rank stays in the broadcast of line 151
CacheCorruptionAborts ==
  log.load = "corrupt" =>
    /\ pc[0] = "aborted"
    /\ log.find_calls = 0
    /\ \A r \in Active \ {0} : pc[r] \in {"L119", "L151"} /\ bcastq[r] = <<>>

\* ======================================================================
\* merging and coordination
\* ======================================================================
\* the rank inside merge_outputs or back from it, and the merged file of a name
Merger == log.merge_calls[1]
MergeOver == log.merge_calls # <<>> /\ pc[Merger] # "L43"
MergedFile(name) == {f \in outFs[run.output_dir] : f.name = name /\ f.current}

\* C11: merge of an empty category. When merge_outputs finds no
\* *river_outline*.shp (or no *bomb*.shp) in the output directory, it returns
\* without error and leaves an empty merged shapefile of that category.
MergeEmptyCategory ==
  /\ (MergeOver /\ glob("*river_outline*.shp", log.merge_input[1]) = {}) =>
       /\ log.merge_returned
       /\ \E f \in MergedFile(<<"total_river_outline.shp">>) : f.features = <<>>
  /\ (MergeOver /\ glob("*bomb*.shp", log.merge_input[1]) = {}) =>
       /\ log.merge_returned
       /\ \E f \in MergedFile(<<"total_bomb_polygons.shp">>) : f.features = <<>>

\* what the code does on an empty category: pandas.concat raises at line 49,
\* after the five merged maps are written; final_clean_up is not reached
MergeEmptyCategoryRaises ==
  (MergeOver /\ glob("*river_outline*.shp", log.merge_input[1]) = {}) =>
    /\ log.merge_raised /\ pc[Merger] = "aborted"
    /\ MergedFile(<<"total_banks_final.map">>) # {}
    /\ MergedFile(<<"total_river_outline.shp">>) = {}
    /\ log.cleanup_calls = <<>>

\* C12: partitioning cannot fail. Every call my_mpi_idx(N, size, rank) with
\* N >= 0, size >= 1 and 0 <= rank < size returns a share and does not raise.
PartitioningCannotFail == \A r \in PCalled : ~pRes[r][1].raised

\* what the code does: the call raises exactly when N = 0
PartitioningFailsAtZero == \A r \in PCalled : pRes[r][1].raised <=> (pN = 0)

PastBarrier217 == {"L221", "L43", "L222", "done"}

\* C13: a group-processing failure stalls the run. Once make_river_map has
\* raised on a rank, that invocation stays the rank's last one and the rank
\* never arrives at the barrier of line 217; no rank is past that barrier, and
\* neither merge_outputs nor final_clean_up has been entered.
GroupFailureStalls ==
  \A x \in log.failed :
    /\ pc[x[1]] = "aborted"
    /\ Len(calls[x[1]]) = i_loop[x[1]] + 1
    /\ calls[x[1]][Len(calls[x[1]])].my_group_id = x[2]
    /\ \A q \in Active : pc[q] \notin PastBarrier217
    /\ log.merge_calls = <<>>
    /\ log.cleanup_calls = <<>>
    /\ MergedFile(<<"total_arcs.map">>) = {}

GroupFailureStallsWitness ==
  /\ run.size >= 3
  /\ \E x \in log.failed :
       /\ Len(calls[x[1]]) < LoopLen(x[1])
       /\ \A q \in Active \ {x[1]} : pc[q] = "L217" /\ Len(calls[q]) >= 1

\* C14: coordinator-only merge. In a run merge_outputs and final_clean_up are
\* each entered at most once and by rank 0 only, final_clean_up only after
\* merge_outputs has returned, and no other rank writes a merged file.
CoordinatorOnlyMerge ==
  /\ Len(log.merge_calls) <= 1
  /\ Len(log.cleanup_calls) <= 1
  /\ \A k \in 1..Len(log.merge_calls) : log.merge_calls[k] = 0
  /\ \A k \in 1..Len(log.cleanup_calls) :
       log.cleanup_calls[k][1] = 0 /\ log.cleanup_calls[k][2] /\ log.merge_calls # <<>>
  /\ log.total_writers \subseteq {0}
  /\ \A r \in Active \ {0} : pc[r] \notin {"L221", "L43", "L222"}

CoordinatorOnlyMergeWitness ==
  /\ run.size >= 3 /\ Finished
  /\ log.merge_calls = <<0>>
  /\ log.cleanup_calls = <<<<0, TRUE>>>>
  /\ log.total_writers = {0}
  /\ \A n \in MergedNames : MergedFile(n) # {}

\* how often the value v occurs in the sequence s
Occurs(v, s) == Cardinality({k \in 1..Len(s) : s[k] = v})

RECURSIVE FeatureCount(_)
\* the number of features of a set of shapefiles
FeatureCount(files) ==
  IF files = {} THEN 0
  ELSE LET f == CHOOSE f \in files : TRUE
       IN Len(f.features) + FeatureCount(files \ {f})

RECURSIVE OccursIn(_, _)
\* how often the feature v, re-projected, occurs in a set of shapefiles
OccursIn(v, files) ==
  IF files = {} THEN 0
  ELSE LET f == CHOOSE f \in files : TRUE
       IN Occurs(v, to_crs(f.features, "epsg:4326")) + OccursIn(v, files \ {f})

\* the *river_outline*.shp files merge_outputs found in the output directory
OutlineParts == glob("*river_outline*.shp", log.merge_input[1])

\* C15: the merged outline is complete. total_river_outline.shp holds every
\* feature of every *river_outline*.shp partial file of the output directory,
\* as often as the partial files hold it, and no other feature: its feature
\* count is the sum of theirs.
MergedOutlineComplete ==
  \A t \in MergedFile(<<"total_river_outline.shp">>) :
    /\ Len(t.features) = FeatureCount(OutlineParts)
    /\ \A p \in OutlineParts : \A k \in 1..Len(p.features) :
         LET v == to_crs(p.features, "epsg:4326")[k]
         IN Occurs(v, t.features) = OccursIn(v, OutlineParts)
    /\ \A j \in 1..Len(t.features) :
         \E p \in OutlineParts : \E k \in 1..Len(p.features) :
           t.features[j] = to_crs(p.features, "epsg:4326")[k]

MergedOutlineCompleteWitness ==
  /\ run.size >= 2 /\ Finished
  /\ Cardinality(OutlineParts) >= 2
  /\ \E p \in OutlineParts : Len(p.features) >= 2
  /\ \E c \in AllCalls : glob("*river_outline*.shp", make_river_map_files(Call(c))) = {}
  /\ \E t \in MergedFile(<<"total_river_outline.shp">>) : Len(t.features) >= 3

\* ======================================================================
\* pre-caching, arguments, order
\* ======================================================================
PastBarrier183 == {"L185", "L187", "L192", "L194", "L198", "L202"} \cup AfterLoop

\* C16: pre-warming covers the tiles. With i_DEM_cache true, when the ranks
\* have left the pre-caching phase (the barrier of line 183), every distinct
\* tile file of the grouping has been parsed there by exactly one rank, the
\* one whose my_mpi_idx share of the deduplicated list holds it.
PreWarmCoversTiles ==
  (i_DEM_cache /\ Active # {} /\ \A r \in Active : pc[r] \in PastBarrier183) =>
    LET tiles == unique_tile_files(log.coordinator[1].tile_groups_files)
    IN \A k \in 1..Len(tiles) :
         /\ Cardinality({r \in Active : <<r, tiles[k]>> \in log.parsed}) = 1
         /\ \A r \in Active :
              <<r, tiles[k]>> \in log.parsed
                <=> my_mpi_idx(Len(tiles), run.size, r).i_my_groups[k]

\* what the code does: no tile is parsed in the pre-caching phase, and the
\* phase never makes a rank leave
PreCacheParsesNothing ==
  /\ log.parsed = {}
  /\ \A r \in Active : pc[r] = "aborted" =>
       \/ log.load = "corrupt" \/ log.merge_raised
       \/ \E x \in log.failed : x[1] = r
       \/ (log.coordinator # None /\ NGroups = 0)

\* C17: argument alignment. The invocation a rank makes for the group id g of
\* its share gets tile_groups_files[g] and tile_groups2thalwegs[g] of the
\* broadcast grouping and a prefix naming g; the rank's index list and its mask
\* select the same groups in the same order.
ArgumentAlignment ==
  /\ \A c \in AllCalls :
       LET a == Call(c)
           s == share[c[1]][1]
       IN /\ a.my_group_id = s.my_group_ids[c[2]]
          /\ a.tif_fnames = log.coordinator[1].tile_groups_files[a.my_group_id + 1]
          /\ a.selected_thalweg = log.coordinator[1].tile_groups2thalwegs[a.my_group_id + 1]
          /\ a.output_prefix = output_prefix(a.my_group_id, c[1], c[2] - 1)
  /\ \A r \in Active : share[r] # None =>
       LET s == share[r][1]
       IN /\ s.my_group_ids = mask_select([k \in 1..NGroups |-> k - 1], s.i_my_groups)
          /\ Len(s.my_tile_groups) = Len(s.my_group_ids)
          /\ Len(s.my_tile_groups_thalwegs) = Len(s.my_group_ids)

ArgumentAlignmentWitness ==
  /\ run.size >= 2 /\ Finished
  /\ \E r \in Active \ {0} : Len(calls[r]) >= 2
  /\ \E c1, c2 \in AllCalls :
       /\ Call(c1).tif_fnames # Call(c2).tif_fnames
       /\ Call(c1).selected_thalweg # Call(c2).selected_thalweg
       /\ Call(c1).my_group_id >= 2

\* the invocations of rank r that have not returned
InProgress(r) == Len(calls[r]) - i_loop[r]

\* C18: sequential processing within a rank. A rank has at most one
\* make_river_map invocation that has not returned, it starts one only when
\* the previous one has returned, and its invocations go by ascending group
\* id; between the barriers of lines 194 and 217 a rank's next step never
\* waits for another rank.
SequentialProcessing ==
  \A r \in Active :
    /\ InProgress(r) \in {0, 1}
    /\ pc[r] = "L198" => InProgress(r) = 0
    /\ pc[r] = "L202" => InProgress(r) = 1
    /\ \A k \in 1..Len(calls[r]) : calls[r][k].i = k - 1
    /\ \A k \in 1..(Len(calls[r]) - 1) : calls[r][k].my_group_id < calls[r][k + 1].my_group_id
    /\ pc[r] = "L198" => ENABLED StartGroup(r)
    /\ pc[r] = "L202" => ENABLED ReturnGroup(r)

SequentialProcessingWitness ==
  /\ run.size >= 3
  /\ \E r1, r2, r3 \in Active :
       /\ pc[r1] = "L202" /\ Len(calls[r1]) = 2
       /\ pc[r2] = "L217" /\ Len(calls[r2]) >= 1
       /\ pc[r3] = "L198" /\ Len(calls[r3]) = 0

\* ======================================================================
\* termination of a run
\* ======================================================================
\* the lines at which a rank works on its own: its next step waits for no
\* other rank
LocalLines ==
  {"L124", "L128", "L140", "L148", "L149", "L167", "L187", "L198", "L202", "L221", "L43", "L222"}
LocalStep == \E r \in Active : pc[r] \in LocalLines

\* a collective of the running job lets a rank go on
CollectiveStep ==
  \/ Barrier119 \/ Bcast151 \/ Bcast152 \/ Bcast153
  \/ Barrier163 \/ Barrier165 \/ Barrier183 \/ Barrier185 \/ Barrier192
  \/ Barrier194 \/ Barrier217

\* some rank of the running job can take its next step
CanStep == LocalStep \/ ENABLED CollectiveStep

\* no routine the driver calls has raised in this run: make_river_map,
\* pickle.load, pandas.concat
ExternalOK == log.failed = {} /\ log.load # "corrupt" /\ ~log.merge_raised

\* C19: deadlock freedom and termination. Provided no external routine has
\* raised, a run in which some rank has not returned always has a rank that
\* can take its next step: no rank is left waiting in a collective or gone
\* without returning, ranks with an empty share included.
RunNeverStuck == (ExternalOK /\ ~Finished) => CanStep

\* what the code does: such a run is stuck exactly when the grouping has no
\* group, every rank having left at line 187
StuckOnlyWithoutGroups ==
  (ExternalOK /\ ~Finished /\ ~CanStep) =>
    /\ NGroups = 0
    /\ \A r \in Active : pc[r] = "aborted" /\ share[r] = None

\* ======================================================================
\* the grouping cache over runs
\* ======================================================================
\* what find_thalweg_tile computes from the inputs of the running job
FreshGrouping == find_thalweg_tile(run.dems_json_file, run.thalweg_shp_fname, run.thalweg_buffer)

\* C20: no stale grouping. Over any sequence of runs sharing the cache
\* directory, the grouping the coordinator loads or computes, and every rank
\* works with, is the one find_thalweg_tile computes from the run's own DEM
\* manifest path, thalweg file path and thalweg_buffer.
NoStaleGrouping ==
  /\ log.coordinator # None => log.coordinator[1] = FreshGrouping
  /\ \A r \in Active : pc[r] \in AfterBcast => MyGrouping(r) = FreshGrouping

\* what the code does: a grouping taken from the cache was computed for some
\* inputs with the same two file names (directories and thalweg_buffer may
\* differ), and a computed one is fresh
GroupingOfSameFileNames ==
  /\ log.load = "hit" =>
       \E a \in RunArgs :
         /\ cache_name(a.dems_json_file, a.thalweg_shp_fname)
              = cache_name(run.dems_json_file, run.thalweg_shp_fname)
         /\ log.coordinator[1]
              = find_thalweg_tile(a.dems_json_file, a.thalweg_shp_fname, a.thalweg_buffer)
  /\ (log.load = "miss" /\ log.coordinator # None) => log.coordinator[1] = FreshGrouping

====
